---------------------------- MODULE Spec2Model ----------------------------
(***************************************************************************)
(* Model of the DynDNS2 update service (speedport-custom-dyndns):          *)
(*   src/src/main.rs                 router, ensure_auth                   *)
(*   src/src/dyndns.rs               handle_dyndns_request, update_record, *)
(*                                   ParsedIpUpdate::from_str              *)
(*   src/src/provider.rs             Origin::is_subdomain, DnsEntry        *)
(*   src/src/provider/cloudflare.rs  CloudflareProvider                    *)
(*                                                                         *)
(* Text is modelled as a sequence of one-character strings, so that        *)
(* splitting, suffix tests, address parsing and formatting are computed.   *)
(* Fixed message fragments of a format string are kept as one token.       *)
(***************************************************************************)
EXTENDS Integers, Sequences, FiniteSets, TLC

(***************************************************************************)
(* Text helpers                                                            *)
(***************************************************************************)
DecChars == <<"0", "1", "2", "3", "4", "5", "6", "7", "8", "9">>
HexLower == <<"0", "1", "2", "3", "4", "5", "6", "7", "8", "9",
              "a", "b", "c", "d", "e", "f">>
HexUpper == <<"0", "1", "2", "3", "4", "5", "6", "7", "8", "9",
              "A", "B", "C", "D", "E", "F">>

Range(s) == {s[i] : i \in DOMAIN s}

IsDecChar(c) == c \in Range(DecChars)
IsHexChar(c) == c \in Range(HexLower) \cup Range(HexUpper)

DecVal(c) == (CHOOSE i \in 1..10 : DecChars[i] = c) - 1
HexVal(c) == (CHOOSE i \in 1..16 : HexLower[i] = c \/ HexUpper[i] = c) - 1

\* str::contains(char)
Contains(s, c) == \E i \in DOMAIN s : s[i] = c

\* str::split(char): always yields at least one part ("" splits to <<"">>)
RECURSIVE Split(_, _)
Split(s, c) ==
    IF ~Contains(s, c) THEN <<s>>
    ELSE LET k == CHOOSE i \in DOMAIN s : s[i] = c /\ \A j \in 1..(i - 1) : s[j] # c
         IN  <<SubSeq(s, 1, k - 1)>> \o Split(SubSeq(s, k + 1, Len(s)), c)

\* [String]::join(sep)
RECURSIVE Join(_, _)
Join(parts, sep) ==
    IF parts = <<>> THEN <<>>
    ELSE IF Len(parts) = 1 THEN parts[1]
    ELSE parts[1] \o sep \o Join(Tail(parts), sep)

\* str::ends_with(&str)
EndsWith(s, suffix) ==
    /\ Len(suffix) <= Len(s)
    /\ SubSeq(s, Len(s) - Len(suffix) + 1, Len(s)) = suffix

\* index of the first "::" of s, 0 when there is none
FirstDoubleColon(s) ==
    LET hits == {i \in 1..(Len(s) - 1) : s[i] = ":" /\ s[i + 1] = ":"}
    IN  IF hits = {} THEN 0 ELSE CHOOSE i \in hits : \A j \in hits : i <= j

(***************************************************************************)
(* std::net address literals, as used by ParsedIpUpdate::from_str          *)
(***************************************************************************)
RECURSIVE DecNumber(_)
DecNumber(s) == IF s = <<>> THEN 0
                ELSE 10 * DecNumber(SubSeq(s, 1, Len(s) - 1)) + DecVal(s[Len(s)])

RECURSIVE HexNumber(_)
HexNumber(s) == IF s = <<>> THEN 0
                ELSE 16 * HexNumber(SubSeq(s, 1, Len(s) - 1)) + HexVal(s[Len(s)])

\* one octet of an IPv4 literal: 1..3 decimal digits, no leading zero, <= 255
IsV4Octet(f) ==
    /\ Len(f) \in 1..3
    /\ \A i \in DOMAIN f : IsDecChar(f[i])
    /\ (Len(f) > 1 => f[1] # "0")
    /\ DecNumber(f) <= 255

\* str::parse::<Ipv4Addr>() succeeds
IsIpv4Literal(s) ==
    LET fs == Split(s, ".")
    IN  /\ Len(s) <= 15
        /\ Len(fs) = 4
        /\ \A i \in 1..4 : IsV4Octet(fs[i])

\* the four octets of a valid IPv4 literal
ParseIpv4(s) == LET fs == Split(s, ".") IN [i \in 1..4 |-> DecNumber(fs[i])]

RECURSIVE FormatDec(_)
FormatDec(n) == IF n < 10 THEN <<DecChars[n + 1]>>
                ELSE FormatDec(n \div 10) \o <<DecChars[(n % 10) + 1]>>

\* Ipv4Addr::to_string
Ipv4ToString(o) ==
    FormatDec(o[1]) \o <<".">> \o FormatDec(o[2]) \o <<".">> \o
    FormatDec(o[3]) \o <<".">> \o FormatDec(o[4])

\* one 16-bit group of an IPv6 literal: 1..4 hex digits, leading zeros allowed
IsV6Group(f) ==
    /\ Len(f) \in 1..4
    /\ \A i \in DOMAIN f : IsHexChar(f[i])

\* fields of one side of an IPv6 literal; the empty side has no field
V6Fields(s) == IF s = <<>> THEN <<>> ELSE Split(s, ":")

\* a run of groups whose last field may be an embedded IPv4 address
V6FieldsOk(fs, v4Allowed) ==
    \A i \in DOMAIN fs :
        \/ IsV6Group(fs[i])
        \/ v4Allowed /\ i = Len(fs) /\ IsIpv4Literal(fs[i])

\* number of 16-bit groups a run of fields stands for
V6Size(fs) ==
    IF fs # <<>> /\ Contains(fs[Len(fs)], ".") THEN Len(fs) + 1 ELSE Len(fs)

\* the 16-bit groups of a valid run of fields
V6Groups(fs) ==
    IF fs # <<>> /\ Contains(fs[Len(fs)], ".")
    THEN LET o == ParseIpv4(fs[Len(fs)])
         IN  [i \in 1..(Len(fs) - 1) |-> HexNumber(fs[i])]
                 \o <<o[1] * 256 + o[2], o[3] * 256 + o[4]>>
    ELSE [i \in 1..Len(fs) |-> HexNumber(fs[i])]

\* str::parse::<Ipv6Addr>() succeeds
IsIpv6Literal(s) ==
    LET dc == FirstDoubleColon(s)
    IN  IF dc = 0
        THEN LET fs == V6Fields(s)
             IN  V6FieldsOk(fs, TRUE) /\ V6Size(fs) = 8
        ELSE LET head == V6Fields(SubSeq(s, 1, dc - 1))
                 tail == V6Fields(SubSeq(s, dc + 2, Len(s)))
             IN  /\ V6FieldsOk(head, FALSE)
                 /\ V6FieldsOk(tail, TRUE)
                 /\ Len(head) + V6Size(tail) <= 7

\* the eight 16-bit groups of a valid IPv6 literal
ParseIpv6(s) ==
    LET dc == FirstDoubleColon(s)
    IN  IF dc = 0 THEN V6Groups(V6Fields(s))
        ELSE LET head == V6Groups(V6Fields(SubSeq(s, 1, dc - 1)))
                 tail == V6Groups(V6Fields(SubSeq(s, dc + 2, Len(s))))
             IN  [i \in 1..8 |->
                     IF i <= Len(head) THEN head[i]
                     ELSE IF i > 8 - Len(tail) THEN tail[i - (8 - Len(tail))]
                     ELSE 0]

RECURSIVE FormatHex(_)
FormatHex(n) == IF n < 16 THEN <<HexLower[n + 1]>>
                ELSE FormatHex(n \div 16) \o <<HexLower[(n % 16) + 1]>>

\* fmt_subslice: lower-case groups joined by ":"
FormatGroups(g) == Join([i \in DOMAIN g |-> FormatHex(g[i])], <<":">>)

\* length of the run of zero groups starting at group i
RECURSIVE ZeroRun(_, _)
ZeroRun(g, i) == IF i > Len(g) \/ g[i] # 0 THEN 0 ELSE 1 + ZeroRun(g, i + 1)

\* Ipv6Addr::to_string: "::ffff:a.b.c.d" for an IPv4-mapped address, else
\* the first longest run of two or more zero groups is written "::"
Ipv6ToString(g) ==
    IF \A i \in 1..5 : g[i] = 0 /\ g[6] = 65535
    THEN <<":", ":", "f", "f", "f", "f", ":">> \o
         Ipv4ToString(<<g[7] \div 256, g[7] % 256, g[8] \div 256, g[8] % 256>>)
    ELSE LET best  == CHOOSE i \in 1..8 :
                          /\ \A j \in 1..8 : ZeroRun(g, j) <= ZeroRun(g, i)
                          /\ \A j \in 1..(i - 1) : ZeroRun(g, j) < ZeroRun(g, i)
             len   == ZeroRun(g, best)
         IN  IF len > 1
             THEN FormatGroups(SubSeq(g, 1, best - 1)) \o <<":", ":">> \o
                  FormatGroups(SubSeq(g, best + len, 8))
             ELSE FormatGroups(g)

(***************************************************************************)
(* rootcause::Report: a chain of contexts, outermost first, each with the  *)
(* attachments added to it.  A text is a sequence of tokens.               *)
(***************************************************************************)
\* report!(msg)
NewReport(msg) == <<[msg |-> msg, attachments |-> <<>>]>>

\* ResultExt::context / Report::context: a new outermost context
Context(report, msg) == NewReport(msg) \o report

\* ResultExt::attach / Report::attach: attached to the outermost context
Attach(report, text) ==
    <<[report[1] EXCEPT !.attachments = @ \o <<text>>]>> \o Tail(report)

RECURSIVE Flatten(_)
Flatten(texts) == IF texts = <<>> THEN <<>> ELSE texts[1] \o Flatten(Tail(texts))

\* "{}" of a Report: every context of the chain with its attachments
RECURSIVE Display(_)
Display(report) ==
    IF report = <<>> THEN <<>>
    ELSE report[1].msg \o Flatten(report[1].attachments) \o Display(Tail(report))

NoReport == <<>>

(***************************************************************************)
(* dyndns.rs: ParsedIpUpdate                                               *)
(***************************************************************************)
Quoted(pre, text, post) == <<pre>> \o text \o <<post>>

\* one pass of the loop over s.split(','), from part k on
RECURSIVE ParseParts(_, _, _)
ParseParts(parts, k, record_update) ==
    IF k > Len(parts)
    THEN [ok |-> TRUE, record_update |-> record_update, err |-> NoReport]
    ELSE LET part == parts[k] IN
         IF Contains(part, ".")
         THEN IF IsIpv4Literal(part)
              THEN ParseParts(parts, k + 1,
                       Append(record_update, <<"A", Ipv4ToString(ParseIpv4(part))>>))
              ELSE [ok |-> FALSE, record_update |-> <<>>,
                    err |-> Context(NewReport(<<"invalid IPv4 address syntax">>),
                                    <<"Could not parse IPv4">>)]
         ELSE IF Contains(part, ":")
         THEN IF IsIpv6Literal(part)
              THEN ParseParts(parts, k + 1,
                       Append(record_update, <<"AAAA", Ipv6ToString(ParseIpv6(part))>>))
              ELSE [ok |-> FALSE, record_update |-> <<>>,
                    err |-> Context(NewReport(<<"invalid IPv6 address syntax">>),
                                    <<"Could not parse IPv6">>)]
         ELSE [ok |-> FALSE, record_update |-> <<>>,
               err |-> NewReport(Quoted("IP part '", part,
                                        "' is neither IPv4 nor IPv6"))]

\* faulty variant: only the first part of the list is parsed
from_str_first_part(s) == ParseParts(<<Split(s, ",")[1]>>, 1, <<>>)

\* faulty variant: a second address of a record type is refused
from_str_one_per_type(s) ==
    LET r == ParseParts(Split(s, ","), 1, <<>>)
    IN  IF r.ok /\ \E i, j \in DOMAIN r.record_update :
                       i < j /\ r.record_update[i][1] = r.record_update[j][1]
        THEN [ok |-> FALSE, record_update |-> <<>>,
              err |-> NewReport(Quoted("Duplicate record type in '", s, "'"))]
        ELSE r

\* ParsedIpUpdate::from_str
from_str(s) ==
    LET r == ParseParts(Split(s, ","), 1, <<>>)
    IN  IF r.ok /\ r.record_update = <<>>
        THEN [ok |-> FALSE, record_update |-> <<>>,
              err |-> NewReport(Quoted("No IP addresses found in '", s, "'"))]
        ELSE r

(***************************************************************************)
(* provider.rs: Origin                                                     *)
(***************************************************************************)
\* faulty variant: suffix test without the dot boundary
is_subdomain_no_dot(origin, domain) == EndsWith(domain, origin)

\* Origin::is_subdomain
is_subdomain(origin, domain) == EndsWith(domain, <<".">> \o origin)

(***************************************************************************)
(* Process configuration (AppState) and the backend's data                 *)
(***************************************************************************)
ExampleCom == <<"e", "x", "a", "m", "p", "l", "e", ".", "c", "o", "m">>

\* AppState.dns_origin, AppState.client_password
dns_origin      == ExampleCom
client_password == "secret"

HostH    == <<"h", ".">> \o ExampleCom
HostG    == <<"g", ".">> \o ExampleCom
HostEvil == <<"e", "v", "i", "l">> \o ExampleCom
HostOther == <<"o", "t", "h", "e", "r", ".", "c", "o", "m">>

Ip1111 == <<"1", ".", "1", ".", "1", ".", "1">>
Ip2222 == <<"2", ".", "2", ".", "2", ".", "2">>
Ip3333 == <<"3", ".", "3", ".", "3", ".", "3">>
Ip6One == <<":", ":", "1">>
Ip6OneLong == <<"0", ":", "0", ":", "0", ":", "0", ":", "0", ":", "0", ":", "0", ":", "0", "1">>
Ip6Two == <<":", ":", "2">>
Comma  == <<",">>

\* the records the backend holds for the zone (CloudflareDnsRecord)
InitRecords ==
    << [id |-> "r0", type |-> "TXT",  name |-> HostH,      content |-> <<"v">>],
       [id |-> "r1", type |-> "A",    name |-> HostH,      content |-> Ip1111],
       [id |-> "r2", type |-> "A",    name |-> HostH,      content |-> Ip1111],
       [id |-> "r3", type |-> "AAAA", name |-> HostH,      content |-> Ip6Two],
       [id |-> "r4", type |-> "AAAA", name |-> HostG,      content |-> Ip6Two],
       [id |-> "r5", type |-> "AAAA", name |-> ExampleCom, content |-> Ip6Two] >>

(***************************************************************************)
(* provider/cloudflare.rs                                                  *)
(***************************************************************************)
OriginAttachment(origin) == Quoted("origin: '", origin, "'")
RecordIdAttachment(id)   == <<"record_id: '", id, "'">>

\* what the zone search of the backend may answer
ZoneMain  == [id |-> "zone-1", name |-> ExampleCom]
ZoneOther == [id |-> "zone-2", name |-> HostOther]
ZoneLists == { <<>>, <<ZoneMain>>, <<ZoneOther>>, <<ZoneOther, ZoneMain>> }
ZoneOutcomes ==
    {[for |-> "zones", kind |-> k, result |-> <<>>, status |-> "", text |-> "",
      applied |-> FALSE] : k \in {"send_err", "json_err"}}
        \cup {[for |-> "zones", kind |-> "ok", result |-> zs, status |-> "",
                text |-> "", applied |-> FALSE] : zs \in ZoneLists}

ZoneNames(zs) == Flatten([i \in DOMAIN zs |-> <<"'">> \o zs[i].name \o <<"' ">>])

\* faulty variant: among several zones the one named like the origin is picked
get_zone_id_guess(origin, out) ==
    IF out.kind = "ok" /\ \E i \in DOMAIN out.result : out.result[i].name = origin
    THEN [ok |-> TRUE,
          id |-> out.result[CHOOSE i \in DOMAIN out.result :
                                out.result[i].name = origin].id,
          err |-> NoReport]
    ELSE [ok |-> FALSE, id |-> "",
          err |-> Attach(NewReport(<<"No zone found for origin">>),
                         OriginAttachment(origin))]

\* CloudflareProvider::get_zone_id, given the backend's answer
get_zone_id(origin, out) ==
    IF out.kind = "send_err"
    THEN [ok |-> FALSE, id |-> "",
          err |-> Attach(Context(NewReport(<<"reqwest::Error(send)">>),
                                 <<"Listing records">>),
                         OriginAttachment(origin))]
    ELSE IF out.kind = "json_err"
    THEN [ok |-> FALSE, id |-> "",
          err |-> Attach(Context(NewReport(<<"reqwest::Error(decode)">>),
                                 <<"Parsing Cloudflare zones response">>),
                         OriginAttachment(origin))]
    ELSE IF Len(out.result) > 1
    THEN [ok |-> FALSE, id |-> "",
          err |-> Attach(Attach(NewReport(<<"Multiple zones found for origin">>),
                                OriginAttachment(origin)),
                         <<"zones: ">> \o ZoneNames(out.result))]
    ELSE IF \E i \in DOMAIN out.result : out.result[i].name = origin
    THEN [ok |-> TRUE, id |-> out.result[1].id, err |-> NoReport]
    ELSE [ok |-> FALSE, id |-> "",
          err |-> Attach(NewReport(<<"No zone found for origin">>),
                         OriginAttachment(origin))]

\* the status line and body text of a non-success backend response
ErrorResponses ==
    { [status |-> "403 Forbidden", text |-> "{\"success\":false}"],
      [status |-> "500 Internal Server Error", text |-> "<Response reading failed>"] }

\* faulty variant: records of every type are kept
ToDnsEntriesAllTypes(result) ==
    [i \in DOMAIN result |->
        [typ |-> result[i].type, id |-> result[i].id,
         name |-> result[i].name, content |-> result[i].content]]

\* From<CloudflareDnsRecord> for Option<DnsEntry>, applied by filter_map
RECURSIVE ToDnsEntries(_)
ToDnsEntries(result) ==
    IF result = <<>> THEN <<>>
    ELSE LET record == result[1] IN
         IF record.type \in {"A", "AAAA"}
         THEN <<[typ |-> record.type, id |-> record.id,
                 name |-> record.name, content |-> record.content]>>
                 \o ToDnsEntries(Tail(result))
         ELSE ToDnsEntries(Tail(result))

\* what the record listing of the backend may answer
ListOutcomes ==
    {[for |-> "list", kind |-> k, result |-> <<>>, status |-> "", text |-> "",
      applied |-> FALSE] : k \in {"send_err", "json_err", "ok"}}
        \cup {[for |-> "list", kind |-> "status_err", result |-> <<>>,
                status |-> e.status, text |-> e.text, applied |-> FALSE] :
                  e \in ErrorResponses}

\* CloudflareProvider::list_records after the zone id, given the backend's answer
list_records_response(origin, out, result) ==
    IF out.kind = "send_err"
    THEN [ok |-> FALSE, entries |-> <<>>,
          err |-> Attach(Context(NewReport(<<"reqwest::Error(send)">>),
                                 <<"Listing DNS records from Cloudflare">>),
                         OriginAttachment(origin))]
    ELSE IF out.kind = "status_err"
    THEN [ok |-> FALSE, entries |-> <<>>,
          err |-> Attach(Attach(Attach(
                      NewReport(<<"Failed to list DNS records from Cloudflare">>),
                      OriginAttachment(origin)),
                      <<"status: ", out.status>>),
                      <<"response: ", out.text>>)]
    ELSE IF out.kind = "json_err"
    THEN [ok |-> FALSE, entries |-> <<>>,
          err |-> Attach(Context(NewReport(<<"reqwest::Error(decode)">>),
                                 <<"Parsing Cloudflare DNS records response">>),
                         OriginAttachment(origin))]
    ELSE [ok |-> TRUE, entries |-> ToDnsEntries(result), err |-> NoReport]

\* what the backend may answer to a PATCH; applied: the backend stored the content
UpdateOutcomes ==
    {[for |-> "update", kind |-> "send_err", result |-> <<>>, status |-> "",
      text |-> "", applied |-> a] : a \in BOOLEAN}
        \cup {[for |-> "update", kind |-> "ok", result |-> <<>>, status |-> "",
                text |-> "", applied |-> TRUE]}
        \cup {[for |-> "update", kind |-> "status_err", result |-> <<>>,
                status |-> e.status, text |-> e.text, applied |-> FALSE] :
                  e \in ErrorResponses}

\* CloudflareProvider::update_record after the zone id, given the backend's answer
update_record_response(origin, record_id, out) ==
    IF out.kind = "send_err"
    THEN [ok |-> FALSE,
          err |-> Attach(Attach(Context(NewReport(<<"reqwest::Error(send)">>),
                                        <<"Updating DNS record in Cloudflare">>),
                                OriginAttachment(origin)),
                         RecordIdAttachment(record_id))]
    ELSE IF out.kind = "ok"
    THEN [ok |-> TRUE, err |-> NoReport]
    ELSE [ok |-> FALSE,
          err |-> Attach(Attach(Attach(Attach(
                      NewReport(<<"Failed to update DNS record in Cloudflare">>),
                      OriginAttachment(origin)),
                      RecordIdAttachment(record_id)),
                      <<"status: ", out.status>>),
                      <<"response: ", out.text>>)]

\* faulty variant: the record is replaced by one holding the content only
PatchContentReplace(recs, record_id, new_content) ==
    [i \in DOMAIN recs |->
        IF recs[i].id = record_id
        THEN [id |-> record_id, type |-> "", name |-> <<>>, content |-> new_content]
        ELSE recs[i]]

\* the backend's PATCH /zones/<zone>/dns_records/<id> with {"content": ...}
PatchContent(recs, record_id, new_content) ==
    [i \in DOMAIN recs |->
        IF recs[i].id = record_id
        THEN [recs[i] EXCEPT !.content = new_content]
        ELSE recs[i]]

(***************************************************************************)
(* The server: one task per inbound request (axum), sharing only the       *)
(* backend.  A task stops at every await of a backend call.                *)
(***************************************************************************)
\* task names are interchangeable: a request takes the first free slot
TaskOrder == <<"t1", "t2">>
Tasks     == Range(TaskOrder)

\* the number of requests the model accepts in one behaviour
MaxRequests == 2

\* Authorization header of a request: none, or Basic with user and password
Headers ==
    {[present |-> FALSE, username |-> "", password |-> ""]}
        \cup {[present |-> TRUE, username |-> u, password |-> p] :
                  u \in {"router", "admin"}, p \in {client_password}}
        \cup {[present |-> TRUE, username |-> "router", password |-> "wrong"]}

Hostnames == {HostH, HostG, ExampleCom, HostEvil}

MyIps == { Ip2222 \o Comma \o Ip6OneLong,
           Ip2222 \o Comma \o Ip3333,
           Ip2222 \o Comma }

Requests == [header : Headers, hostname : Hostnames, myip : MyIps]

NoRequest  == [header |-> [present |-> FALSE, username |-> "", password |-> ""],
               hostname |-> <<>>, myip |-> <<>>]
NoResponse == [status |-> 0, body |-> <<>>]
NoOutcome  == [for |-> "", kind |-> "none", result |-> <<>>, status |-> "",
               text |-> "", applied |-> FALSE]
NoResult   == [ok |-> FALSE, record_update |-> <<>>, err |-> NoReport]

VARIABLES
    records,      \* the backend's records of the zone
    accepted,     \* number of requests accepted so far
    pc,           \* where each task stands
    req,          \* the request of each task (Authorization, UpdateQuery)
    reached,      \* the task's request reached handle_dyndns_request
    ip,           \* ParsedIpUpdate.record_update of the task
    dns,          \* update_record: the listed records filtered by name
    idx,          \* update_record: the pair the loop is at
    updated_ips,  \* update_record: updated_ips
    zone_id,      \* list_records / update_record: zone_id
    last_out,     \* the backend's last answer to a request of the task
    resp,         \* the response sent to the client
    list_calls,   \* DnsProvider::list_records calls made for the request
    update_calls, \* DnsProvider::update_record calls made for the request
    backend_log,  \* backend requests sent for the request
    parser        \* a run of ParsedIpUpdate::from_str on its own (ParseSpec)

vars == <<records, accepted, pc, req, reached, ip, dns, idx, updated_ips,
          zone_id, last_out, resp, list_calls, update_calls, backend_log, parser>>

ServerInit ==
    /\ records = InitRecords
    /\ accepted = 0
    /\ pc = [t \in Tasks |-> "idle"]
    /\ req = [t \in Tasks |-> NoRequest]
    /\ reached = [t \in Tasks |-> FALSE]
    /\ ip = [t \in Tasks |-> <<>>]
    /\ dns = [t \in Tasks |-> <<>>]
    /\ idx = [t \in Tasks |-> 0]
    /\ updated_ips = [t \in Tasks |-> <<>>]
    /\ zone_id = [t \in Tasks |-> ""]
    /\ last_out = [t \in Tasks |-> NoOutcome]
    /\ resp = [t \in Tasks |-> NoResponse]
    /\ list_calls = [t \in Tasks |-> 0]
    /\ update_calls = [t \in Tasks |-> <<>>]
    /\ backend_log = [t \in Tasks |-> <<>>]

Init ==
    /\ ServerInit
    /\ parser = [pc |-> "off", s |-> <<>>, out |-> NoResult]

\* a connection is accepted and its request read
Receive(t) ==
    /\ pc[t] = "idle"
    /\ \A i, j \in DOMAIN TaskOrder : i < j /\ TaskOrder[j] = t => pc[TaskOrder[i]] # "idle"
    /\ accepted < MaxRequests
    /\ \E r \in Requests : req' = [req EXCEPT ![t] = r]
    /\ accepted' = accepted + 1
    /\ pc' = [pc EXCEPT ![t] = "received"]
    /\ UNCHANGED <<parser, records, reached, ip, dns, idx, updated_ips, zone_id, last_out,
                   resp, list_calls, update_calls, backend_log>>

\* faulty variant: the comparison is inverted
invalid_password_inverted(header) == header.password = client_password

\* ensure_auth: header.password() != state.client_password
invalid_password(header) == header.password # client_password

\* main.rs ensure_auth, run as the route's middleware layer
ensure_auth(t) ==
    /\ pc[t] = "received"
    /\ IF ~req[t].header.present
       THEN \* TypedHeader<Authorization<Basic>> extractor rejects the request
            /\ pc' = [pc EXCEPT ![t] = "responded"]
            /\ resp' = [resp EXCEPT ![t] =
                   [status |-> 400, body |-> <<"TypedHeaderRejection">>]]
       ELSE IF invalid_password(req[t].header)
       THEN /\ pc' = [pc EXCEPT ![t] = "responded"]
            /\ resp' = [resp EXCEPT ![t] =
                   [status |-> 401, body |-> <<"invalid password">>]]
       ELSE \* next.run(req); header.username() is read by the rejection's
            \* debug! line only, so it is forgotten once the password matched
            /\ pc' = [pc EXCEPT ![t] = "handler"]
            /\ resp' = resp
    /\ req' = [req EXCEPT ![t].header.username =
                  IF pc'[t] = "handler" THEN "" ELSE @]
    /\ UNCHANGED <<parser, records, accepted, reached, ip, dns, idx, updated_ips,
                   zone_id, last_out, list_calls, update_calls, backend_log>>

\* ParsedIpUpdate::from_str(&query.myip) for every myip a request may carry
ParsedMyIp == [s \in MyIps |-> from_str(s)]

\* dyndns.rs handle_dyndns_request up to the first await: parse, validate,
\* then update_record calls list_records, which starts get_zone_id
handle_dyndns_request(t) ==
    /\ pc[t] = "handler"
    /\ reached' = [reached EXCEPT ![t] = TRUE]
    /\ LET parsed == ParsedMyIp[req[t].myip] IN
       IF ~parsed.ok
       THEN /\ pc' = [pc EXCEPT ![t] = "responded"]
            /\ resp' = [resp EXCEPT ![t] =
                   [status |-> 400,
                    body |-> <<"invalid 'myip' parameter: ">> \o Display(parsed.err)]]
            /\ UNCHANGED <<ip, list_calls>>
       ELSE IF ~is_subdomain(dns_origin, req[t].hostname)
       THEN /\ pc' = [pc EXCEPT ![t] = "responded"]
            /\ resp' = [resp EXCEPT ![t] =
                   [status |-> 400,
                    body |-> <<"domain '">> \o req[t].hostname
                                 \o <<"' is not a subdomain of '">> \o dns_origin
                                 \o <<"'">>]]
            /\ UNCHANGED <<ip, list_calls>>
       ELSE /\ ip' = [ip EXCEPT ![t] = parsed.record_update]
            /\ list_calls' = [list_calls EXCEPT ![t] = @ + 1]
            /\ pc' = [pc EXCEPT ![t] = "list_zone"]
            /\ resp' = resp
    /\ backend_log' = [backend_log EXCEPT ![t] =
                          IF pc'[t] = "list_zone" THEN Append(@, "GET zones") ELSE @]
    /\ UNCHANGED <<parser, records, accepted, req, dns, idx, updated_ips, zone_id, last_out,
                   update_calls>>

\* the 500 response of handle_dyndns_request for a failed update_record
InternalError(report) ==
    [status |-> 500, body |-> <<"failed to update DNS record: ">> \o Display(report)]

\* faulty variant: the lines are joined by a blank
GoodBlankJoined(ips) ==
    [status |-> 200,
     body |-> Join([i \in DOMAIN ips |-> <<"good ">> \o ips[i]], <<" ">>)]

\* the 200 response of handle_dyndns_request
Good(ips) ==
    [status |-> 200,
     body |-> Join([i \in DOMAIN ips |-> <<"good ">> \o ips[i]], <<"\n">>)]

\* faulty variant: the last record of the type is taken
FindRecordLast(recs, record_type) ==
    IF \E i \in DOMAIN recs : recs[i].typ = record_type
    THEN CHOOSE i \in DOMAIN recs :
             /\ recs[i].typ = record_type
             /\ \A j \in (i + 1)..Len(recs) : recs[j].typ # record_type
    ELSE 0

\* faulty variant: the listed records are not filtered by name
AllNames(entries, domain) == entries

\* update_record: .filter(|r| r.name == domain)
FilterByName(entries, domain) == SelectSeq(entries, LAMBDA e : e.name = domain)

\* faulty variant: the first record of the hostname is taken whatever its type
FindRecordAnyType(recs, record_type) == IF recs = <<>> THEN 0 ELSE 1

\* records.iter().find(|it| &it.typ == record_type): index of the first, or 0
FindRecord(recs, record_type) ==
    IF \E i \in DOMAIN recs : recs[i].typ = record_type
    THEN CHOOSE i \in DOMAIN recs :
             /\ recs[i].typ = record_type
             /\ \A j \in 1..(i - 1) : recs[j].typ # record_type
    ELSE 0

\* faulty variant: the loop starts over at the first pair with a record
NextPairRestart(recs, pairs, k) ==
    IF k > Len(pairs) /\ \E j \in DOMAIN pairs : FindRecord(recs, pairs[j][1]) # 0
    THEN CHOOSE j \in DOMAIN pairs :
             /\ FindRecord(recs, pairs[j][1]) # 0
             /\ \A i \in 1..(j - 1) : FindRecord(recs, pairs[i][1]) = 0
    ELSE IF k > Len(pairs) THEN 0
    ELSE IF \E j \in k..Len(pairs) : FindRecord(recs, pairs[j][1]) # 0
    THEN CHOOSE j \in k..Len(pairs) :
             /\ FindRecord(recs, pairs[j][1]) # 0
             /\ \A i \in k..(j - 1) : FindRecord(recs, pairs[i][1]) = 0
    ELSE 0

\* the loop of update_record from pair k on, up to its next update_record
\* call: the index of the next pair with a record, or 0 when the loop ends
RECURSIVE NextPair(_, _, _)
NextPair(recs, pairs, k) ==
    IF k > Len(pairs) THEN 0
    ELSE IF FindRecord(recs, pairs[k][1]) # 0 THEN k
    ELSE NextPair(recs, pairs, k + 1)

\* attachments update_record adds to a failed provider update
ForPair(report, domain, record_type) ==
    Attach(Attach(report, Quoted("For domain '", domain, "'")),
           <<"For ", record_type, " record">>)

\* faulty variant: the calls for all remaining pairs are started together
ContinueTogether(t, recs, ips, k) ==
    LET n  == NextPair(recs, ip[t], k)
        ks == {j \in k..Len(ip[t]) : FindRecord(recs, ip[t][j][1]) # 0}
        calls == [i \in 1..Cardinality(ks) |->
                     LET j == CHOOSE j \in ks : Cardinality({m \in ks : m <= j}) = i
                     IN  [pair |-> j,
                          record_id |-> recs[FindRecord(recs, ip[t][j][1])].id,
                          new_content |-> ip[t][j][2]]]
    IN
    IF n = 0
    THEN /\ pc' = [pc EXCEPT ![t] = "responded"]
         /\ resp' = [resp EXCEPT ![t] = Good(ips)]
         /\ idx' = [idx EXCEPT ![t] = Len(ip[t]) + 1]
         /\ update_calls' = update_calls
         /\ backend_log' = backend_log
    ELSE /\ pc' = [pc EXCEPT ![t] = "update_zone"]
         /\ backend_log' = [backend_log EXCEPT ![t] = Append(@, "GET zones")]
         /\ resp' = resp
         /\ idx' = [idx EXCEPT ![t] = n]
         /\ update_calls' = [update_calls EXCEPT ![t] = @ \o calls]

\* the task runs the loop of update_record from pair k on with `recs` and
\* `ips` as records and updated_ips, up to its next await or the response
Continue(t, recs, ips, k) ==
    LET n == NextPair(recs, ip[t], k) IN
    IF n = 0
    THEN /\ pc' = [pc EXCEPT ![t] = "responded"]
         /\ resp' = [resp EXCEPT ![t] = Good(ips)]
         /\ idx' = [idx EXCEPT ![t] = Len(ip[t]) + 1]
         /\ update_calls' = update_calls
         /\ backend_log' = backend_log
    ELSE /\ pc' = [pc EXCEPT ![t] = "update_zone"]
         /\ backend_log' = [backend_log EXCEPT ![t] = Append(@, "GET zones")]
         /\ resp' = resp
         /\ idx' = [idx EXCEPT ![t] = n]
         /\ update_calls' = [update_calls EXCEPT ![t] =
                Append(@, [pair |-> n,
                           record_id |-> recs[FindRecord(recs, ip[t][n][1])].id,
                           new_content |-> ip[t][n][2]])]

\* cloudflare.rs get_zone_id, called first by list_records and update_record
GetZoneId(t) ==
    /\ pc[t] \in {"list_zone", "update_zone"}
    /\ \E out \in ZoneOutcomes :
         LET r == get_zone_id(dns_origin, out) IN
         /\ last_out' = [last_out EXCEPT ![t] = out]
         /\ IF r.ok
            THEN /\ zone_id' = [zone_id EXCEPT ![t] = r.id]
                 /\ pc' = [pc EXCEPT ![t] =
                        IF pc[t] = "list_zone" THEN "list_send" ELSE "update_send"]
                 /\ backend_log' = [backend_log EXCEPT ![t] =
                        Append(@, IF pc[t] = "list_zone" THEN "GET dns_records"
                                  ELSE "PATCH dns_records")]
                 /\ resp' = resp
            ELSE /\ zone_id' = zone_id
                 /\ backend_log' = backend_log
                 /\ pc' = [pc EXCEPT ![t] = "responded"]
                 /\ resp' = [resp EXCEPT ![t] =
                        InternalError(
                            IF pc[t] = "list_zone" THEN r.err
                            ELSE ForPair(r.err, req[t].hostname, ip[t][idx[t]][1]))]
    /\ UNCHANGED <<parser, records, accepted, req, reached, ip, dns, idx, updated_ips,
                   list_calls, update_calls>>

\* cloudflare.rs list_records after the zone id, and update_record (dyndns.rs)
\* from its result to its next await
ListRecords(t) ==
    /\ pc[t] = "list_send"
    /\ \E out \in ListOutcomes :
         LET r    == list_records_response(dns_origin, out, records)
             recs == FilterByName(r.entries, req[t].hostname)
         IN  /\ last_out' = [last_out EXCEPT ![t] = out]
             /\ IF r.ok
                THEN /\ dns' = [dns EXCEPT ![t] = recs]
                     /\ Continue(t, recs, <<>>, 1)
                ELSE /\ pc' = [pc EXCEPT ![t] = "responded"]
                     /\ resp' = [resp EXCEPT ![t] = InternalError(r.err)]
                     /\ UNCHANGED <<dns, idx, update_calls, backend_log>>
    /\ UNCHANGED <<parser, records, accepted, req, reached, ip, updated_ips, zone_id,
                   list_calls>>

\* faulty variant: a failed provider update is skipped and the loop goes on
UpdateRecordSwallow(t) ==
    /\ pc[t] = "update_send"
    /\ LET call == update_calls[t][Len(update_calls[t])] IN
       \E out \in UpdateOutcomes :
         LET r == update_record_response(dns_origin, call.record_id, out) IN
         /\ last_out' = [last_out EXCEPT ![t] = out]
         /\ records' = IF out.applied
                       THEN PatchContent(records, call.record_id, call.new_content)
                       ELSE records
         /\ updated_ips' = [updated_ips EXCEPT ![t] =
                IF r.ok THEN Append(@, call.new_content) ELSE @]
         /\ Continue(t, dns[t], updated_ips'[t], idx[t] + 1)
    /\ UNCHANGED <<parser, accepted, req, reached, ip, dns, zone_id, list_calls>>

\* faulty variant: updated_ips is kept in the state all requests share
UpdateRecordSharedIps(t) ==
    /\ pc[t] = "update_send"
    /\ LET call == update_calls[t][Len(update_calls[t])] IN
       \E out \in UpdateOutcomes :
         LET r == update_record_response(dns_origin, call.record_id, out) IN
         /\ last_out' = [last_out EXCEPT ![t] = out]
         /\ records' = IF out.applied
                       THEN PatchContent(records, call.record_id, call.new_content)
                       ELSE records
         /\ IF r.ok
            THEN /\ updated_ips' = [u \in Tasks |->
                        IF pc[u] \in {"update_zone", "update_send"}
                        THEN Append(updated_ips[u], call.new_content)
                        ELSE updated_ips[u]]
                 /\ Continue(t, dns[t], updated_ips'[t], idx[t] + 1)
            ELSE /\ pc' = [pc EXCEPT ![t] = "responded"]
                 /\ resp' = [resp EXCEPT ![t] =
                        InternalError(ForPair(r.err, req[t].hostname, ip[t][idx[t]][1]))]
                 /\ UNCHANGED <<updated_ips, idx, update_calls, backend_log>>
    /\ UNCHANGED <<parser, accepted, req, reached, ip, dns, zone_id, list_calls>>

\* cloudflare.rs update_record after the zone id, and update_record (dyndns.rs)
\* from its result to its next await
UpdateRecord(t) ==
    /\ pc[t] = "update_send"
    /\ LET call == update_calls[t][Len(update_calls[t])] IN
       \E out \in UpdateOutcomes :
         LET r == update_record_response(dns_origin, call.record_id, out) IN
         /\ last_out' = [last_out EXCEPT ![t] = out]
         /\ records' = IF out.applied
                       THEN PatchContent(records, call.record_id, call.new_content)
                       ELSE records
         /\ IF r.ok
            THEN /\ updated_ips' = [updated_ips EXCEPT ![t] = Append(@, call.new_content)]
                 /\ Continue(t, dns[t], Append(updated_ips[t], call.new_content),
                             idx[t] + 1)
            ELSE /\ pc' = [pc EXCEPT ![t] = "responded"]
                 /\ resp' = [resp EXCEPT ![t] =
                        InternalError(ForPair(r.err, req[t].hostname, ip[t][idx[t]][1]))]
                 /\ UNCHANGED <<updated_ips, idx, update_calls, backend_log>>
    /\ UNCHANGED <<parser, accepted, req, reached, ip, dns, zone_id, list_calls>>

\* main.rs axum::serve: the client closes the connection while the task
\* waits for the backend; the task's future is dropped at that await.  A PATCH
\* in flight may or may not have reached the backend.
ClientDisconnect(t) ==
    /\ pc[t] \in {"list_zone", "list_send", "update_zone", "update_send"}
    /\ pc' = [pc EXCEPT ![t] = "dropped"]
    /\ IF pc[t] = "update_send"
       THEN LET call == update_calls[t][Len(update_calls[t])] IN
            \E applied \in BOOLEAN :
                records' = IF applied
                           THEN PatchContent(records, call.record_id, call.new_content)
                           ELSE records
       ELSE records' = records
    /\ UNCHANGED <<parser, accepted, req, reached, ip, dns, idx, updated_ips, zone_id,
                   last_out, resp, list_calls, update_calls, backend_log>>

\* the task has ended; its slot serves the next request
Finish(t) ==
    /\ pc[t] \in {"responded", "dropped"}
    /\ pc' = [pc EXCEPT ![t] = "idle"]
    /\ req' = [req EXCEPT ![t] = NoRequest]
    /\ reached' = [reached EXCEPT ![t] = FALSE]
    /\ ip' = [ip EXCEPT ![t] = <<>>]
    /\ dns' = [dns EXCEPT ![t] = <<>>]
    /\ idx' = [idx EXCEPT ![t] = 0]
    /\ updated_ips' = [updated_ips EXCEPT ![t] = <<>>]
    /\ zone_id' = [zone_id EXCEPT ![t] = ""]
    /\ last_out' = [last_out EXCEPT ![t] = NoOutcome]
    /\ resp' = [resp EXCEPT ![t] = NoResponse]
    /\ list_calls' = [list_calls EXCEPT ![t] = 0]
    /\ update_calls' = [update_calls EXCEPT ![t] = <<>>]
    /\ backend_log' = [backend_log EXCEPT ![t] = <<>>]
    /\ UNCHANGED <<parser, records, accepted>>

Next ==
    \E t \in Tasks :
        \/ Receive(t)
        \/ ensure_auth(t)
        \/ handle_dyndns_request(t)
        \/ GetZoneId(t)
        \/ ListRecords(t)
        \/ UpdateRecord(t)
        \/ ClientDisconnect(t)
        \/ Finish(t)

Spec == Init /\ [][Next]_vars

(***************************************************************************)
(* The server with its scheduling: the runtime polls every task that can   *)
(* go on, and a backend call that is awaited returns                       *)
(***************************************************************************)
\* the steps of a task's own code
TaskStep(t) ==
    \/ ensure_auth(t)
    \/ handle_dyndns_request(t)
    \/ GetZoneId(t)
    \/ ListRecords(t)
    \/ UpdateRecord(t)

LiveSpec == Init /\ [][Next]_vars /\ \A t \in Tasks : WF_vars(TaskStep(t))

(***************************************************************************)
(* ParsedIpUpdate::from_str on its own: one input, one run                 *)
(***************************************************************************)
\* number of comma-separated parts of an input
MaxParts == 2

PartCatalog ==
    { <<>>,
      <<"x">>,
      Ip2222,
      <<"2", "5", "5", ".", "0", ".", "0", ".", "1", "0">>,
      <<"2", "5", "6", ".", "1", ".", "1", ".", "1">>,
      <<"0", "1", ".", "1", ".", "1", ".", "1">>,
      <<"1", ".", "1", ".", "1">>,
      Ip6One,
      Ip6OneLong,
      <<":", ":">>,
      <<"1", ":", ":">>,
      <<"2", "0", "0", "1", ":", "D", "B", "8", ":", ":", "1">>,
      <<"1", ":", "0", ":", "0", ":", "2", ":", "0", ":", "0", ":", "0", ":", "3">>,
      <<":", ":", ":">>,
      <<"1", ":", ":", "2", ":", ":", "3">>,
      <<"1", "2", "3", "4", "5", ":", ":">>,
      <<"g", ":", ":", "1">>,
      <<":", ":", "f", "f", "f", "f", ":", "1", "0", "2", ":", "3", "0", "4">>,
      <<":", ":", "1", ".", "1", ".", "1", ".", "1">> }

ParseInputs ==
    {Join(ps, Comma) : ps \in UNION {[1..n -> PartCatalog] : n \in 1..MaxParts}}

ParseInit ==
    /\ ServerInit
    /\ parser \in {[pc |-> "start", s |-> x, out |-> NoResult] : x \in ParseInputs}

Parse ==
    /\ parser.pc = "start"
    /\ parser' = [parser EXCEPT !.pc = "done", !.out = from_str(parser.s)]
    /\ UNCHANGED <<records, accepted, pc, req, reached, ip, dns, idx, updated_ips,
                   zone_id, last_out, resp, list_calls, update_calls, backend_log>>

ParseNext == Parse

ParseSpec == ParseInit /\ [][ParseNext]_vars

(***************************************************************************)
(* Vocabulary of the properties                                            *)
(***************************************************************************)
\* the task has made a provider call or sent a backend request
HasCalls(t) ==
    list_calls[t] > 0 \/ update_calls[t] # <<>> \/ backend_log[t] # <<>>

\* the request carries the shared secret as its Basic password
Authenticated(t) ==
    req[t].header.present /\ req[t].header.password = client_password

\* h is some text, a dot, then the origin
DotSuffix(h, origin) ==
    \E k \in DOMAIN h :
        /\ h[k] = "."
        /\ Len(h) - k = Len(origin)
        /\ \A j \in DOMAIN origin : h[k + j] = origin[j]

\* index of the first record the backend holds with this name and type, or 0
MatchIndex(host, typ) ==
    LET hits == {i \in DOMAIN InitRecords :
                    InitRecords[i].name = host /\ InitRecords[i].type = typ}
    IN  IF hits = {} THEN 0 ELSE CHOOSE i \in hits : \A j \in hits : i <= j

\* the update_record calls the task made for pair k
CallsForPair(t, k) ==
    {j \in DOMAIN update_calls[t] : update_calls[t][j].pair = k}

\* pair k got the calls it is due: one call with the first matching record's
\* id and the pair's address, or none when no record matches
PairServed(t, k) ==
    LET m == MatchIndex(req[t].hostname, ip[t][k][1]) IN
    IF m = 0 THEN CallsForPair(t, k) = {}
    ELSE /\ Cardinality(CallsForPair(t, k)) = 1
         /\ \A j \in CallsForPair(t, k) :
                /\ update_calls[t][j].record_id = InitRecords[m].id
                /\ update_calls[t][j].new_content = ip[t][k][2]

\* the backend's answer makes the provider call fail
Failed(out) ==
    \/ out.kind \in {"send_err", "json_err", "status_err"}
    \/ /\ out.for = "zones"
       /\ out.kind = "ok"
       /\ ~(Len(out.result) = 1 /\ out.result[1].name = dns_origin)

CountLog(t, what) ==
    Cardinality({j \in DOMAIN backend_log[t] : backend_log[t][j] = what})

(***************************************************************************)
(* C1                                                                      *)
(***************************************************************************)
\* C1 as stated: once a request whose records were listed is answered, every
\* pair of its myip with a matching record got exactly one update_record call
\* (first matching record's id, the pair's address) and every other pair none.
C1_EveryPairServed ==
    \A t \in Tasks :
        pc[t] = "responded" /\ idx[t] >= 1 =>
            \A k \in DOMAIN ip[t] : PairServed(t, k)

\* C1 amended: the pairs the loop of update_record has reached (all of them
\* once the request is answered 200) got exactly the calls they are due, each
\* on the first record of the hostname and type, with the pair's address; the
\* pairs after a failed call or a disconnect got no call.
C1_ReachedPairsServed ==
    \A t \in Tasks :
        idx[t] >= 1 =>
            /\ \A k \in DOMAIN ip[t] :
                   IF k <= idx[t] THEN PairServed(t, k) ELSE CallsForPair(t, k) = {}
            /\ (pc[t] = "responded" /\ resp[t].status = 200 =>
                   \A k \in DOMAIN ip[t] : PairServed(t, k))

\* a request answered 200 with one pair updated and the other skipped, and one
\* whose hostname has two records of the pair's type
C1_Witness ==
    /\ \E t \in Tasks :
           /\ pc[t] = "responded" /\ resp[t].status = 200
           /\ Len(ip[t]) = 2 /\ Len(update_calls[t]) = 1
    /\ \E t \in Tasks :
           /\ pc[t] = "responded" /\ resp[t].status = 200
           /\ req[t].hostname = HostH /\ Len(update_calls[t]) = 2

(***************************************************************************)
(* C2                                                                      *)
(***************************************************************************)
\* the myip values with a comma-separated part that is no address literal
MalformedMyIps ==
    {s \in MyIps :
        LET parts == Split(s, ",") IN
        \E i \in 1..Len(parts) :
            ~IsIpv4Literal(parts[i]) /\ ~IsIpv6Literal(parts[i])}

\* C2: an authenticated request whose myip does not parse, or whose hostname
\* is not a subdomain of the origin, makes no provider call and sends no
\* backend request, and is answered 400.
C2_RejectedWithoutProviderCall ==
    \A t \in Tasks :
        /\ req[t] # NoRequest
        /\ req[t].myip \in MalformedMyIps \/ ~DotSuffix(req[t].hostname, dns_origin)
        => /\ ~HasCalls(t)
           /\ pc[t] \in {"received", "handler", "responded"}
           /\ (pc[t] = "responded" /\ Authenticated(t) =>
                  reached[t] /\ resp[t].status = 400)

\* both kinds of rejection have happened: a bad myip with a good hostname, and
\* a foreign hostname with a good myip
C2_Witness ==
    /\ \E t \in Tasks :
           /\ pc[t] = "responded" /\ reached[t]
           /\ req[t].myip \in MalformedMyIps /\ req[t].hostname = HostH
    /\ \E t \in Tasks :
           /\ pc[t] = "responded" /\ reached[t]
           /\ req[t].myip \notin MalformedMyIps /\ req[t].hostname = HostEvil

(***************************************************************************)
(* C3                                                                      *)
(***************************************************************************)
SubExampleCom == <<"s", "u", "b", ".">> \o ExampleCom

\* C3: is_subdomain holds exactly of the names that end with "." and the
\* origin (sub.example.com, not example.com, not evilexample.com), and every
\* request with a provider call has such a hostname.
C3_StrictSubdomain ==
    /\ is_subdomain(ExampleCom, SubExampleCom)
    /\ ~is_subdomain(ExampleCom, ExampleCom)
    /\ ~is_subdomain(ExampleCom, HostEvil)
    /\ \A h \in Hostnames \cup {SubExampleCom, HostOther, <<>>, <<".">>} :
           \A o \in {ExampleCom, HostOther, <<"m">>} :
               is_subdomain(o, h) <=> DotSuffix(h, o)
    /\ \A t \in Tasks : HasCalls(t) => DotSuffix(req[t].hostname, dns_origin)

\* provider calls were made for a subdomain while the origin itself and a
\* name without the dot boundary were turned down
C3_Witness ==
    /\ \E t \in Tasks : HasCalls(t) /\ req[t].hostname = HostG
    /\ \E t \in Tasks :
           /\ pc[t] = "responded" /\ reached[t] /\ resp[t].status = 400
           /\ req[t].hostname \in {HostEvil, ExampleCom}
           /\ ParsedMyIp[req[t].myip].ok

(***************************************************************************)
(* C4                                                                      *)
(***************************************************************************)
C4_Inv ==
    \A t \in Tasks :
        /\ (reached[t] \/ HasCalls(t) \/ pc[t] = "handler") => Authenticated(t)
        /\ (pc[t] = "responded" /\ req[t].header.present /\ ~Authenticated(t)) =>
               /\ resp[t] = [status |-> 401, body |-> <<"invalid password">>]
               /\ ~reached[t]

\* whatever the username, the right password is let through
C4_Step ==
    \A t \in Tasks :
        pc[t] = "received" /\ Authenticated(t) /\ pc'[t] # pc[t] => pc'[t] = "handler"

LastOf(s) == s[Len(s)]

C5_Inv ==
    \A t \in Tasks :
        /\ Failed(last_out[t]) <=> (pc[t] = "responded" /\ resp[t].status = 500)
        /\ Failed(last_out[t]) =>
              \* nothing was retried, and the failed request was the last one
              /\ list_calls[t] = 1
              /\ CountLog(t, "GET dns_records") <= 1
              /\ CountLog(t, "GET zones") = 1 + Len(update_calls[t])
              /\ CountLog(t, "PATCH dns_records") <= Len(update_calls[t])
              /\ LastOf(backend_log[t]) =
                     (CASE last_out[t].for = "zones"  -> "GET zones"
                        [] last_out[t].for = "list"   -> "GET dns_records"
                        [] last_out[t].for = "update" -> "PATCH dns_records")
              \* the failed update_record call is the last call; no pair after it
              /\ IF CountLog(t, "GET dns_records") = 0 \/ last_out[t].for = "list"
                 THEN update_calls[t] = <<>> /\ updated_ips[t] = <<>>
                 ELSE /\ Len(update_calls[t]) = Len(updated_ips[t]) + 1
                      /\ \A i, j \in DOMAIN update_calls[t] :
                             i < j => update_calls[t][i].pair < update_calls[t][j].pair
              \* alone on the backend, the updates applied before the failure persist
              /\ accepted = 1 =>
                     \A j \in 1..Len(updated_ips[t]) :
                         \E i \in DOMAIN records :
                             /\ records[i].id = update_calls[t][j].record_id
                             /\ records[i].content \in
                                    {update_calls[t][n].new_content :
                                         n \in {m \in j..Len(update_calls[t]) :
                                                   update_calls[t][m].record_id
                                                       = update_calls[t][j].record_id}}
                             /\ records[i].content # InitRecords[i].content

\* the backend's content changes only by the PATCH a task has in flight, to the
\* address of that call: nothing is written back
C5_Step ==
    \A i \in DOMAIN records :
        records'[i] # records[i] =>
            \E t \in Tasks :
                /\ pc[t] = "update_send"
                /\ pc'[t] # pc[t]
                /\ LastOf(update_calls[t]).record_id = records[i].id
                /\ records'[i].content = LastOf(update_calls[t]).new_content
                /\ \E k \in DOMAIN ip[t] : ip[t][k][2] = records'[i].content

\* C5: a failed provider call answers the request with 500; no call is made
\* for a later pair, nothing is retried, and what earlier pairs wrote stays.
C5_FailureAbortsWithoutRollback == []C5_Inv /\ [][C5_Step]_vars

\* the second update_record of a request failed after the first was applied
C5_Witness ==
    \E t \in Tasks :
        /\ pc[t] = "responded" /\ resp[t].status = 500
        /\ last_out[t].for = "update"
        /\ Len(updated_ips[t]) = 1 /\ Len(update_calls[t]) = 2
        /\ accepted = 1

(***************************************************************************)
(* C6                                                                      *)
(***************************************************************************)
\* the lines due to the pairs from k on: one per pair with a matching record
RECURSIVE GoodLines(_, _, _)
GoodLines(host, pairs, k) ==
    IF k > Len(pairs) THEN <<>>
    ELSE (IF MatchIndex(host, pairs[k][1]) # 0
          THEN << <<"good ">> \o pairs[k][2] >>
          ELSE <<>>) \o GoodLines(host, pairs, k + 1)

\* C6: an authenticated request that parses, validates and meets no provider
\* failure is answered 200 with the lines "good <address>" of its matched
\* pairs, in myip order, joined by newlines; with no matched pair the body is
\* empty.
C6_GoodBody ==
    \A t \in Tasks :
        /\ pc[t] = "responded" /\ Authenticated(t)
        /\ ParsedMyIp[req[t].myip].ok /\ DotSuffix(req[t].hostname, dns_origin)
        /\ ~Failed(last_out[t])
        => LET pairs == ParsedMyIp[req[t].myip].record_update IN
           /\ resp[t].status = 200
           /\ resp[t].body = Join(GoodLines(req[t].hostname, pairs, 1), <<"\n">>)
           /\ ((\A k \in DOMAIN pairs : MatchIndex(req[t].hostname, pairs[k][1]) = 0)
                   => resp[t].body = <<>>)

\* answered: one request with the two lines of its pairs, the noted address
\* in canonical form, and one whose pairs matched no record, with an empty body
C6_Witness ==
    /\ \E t \in Tasks :
           /\ pc[t] = "responded" /\ resp[t].status = 200
           /\ resp[t].body = <<"good ">> \o Ip2222 \o <<"\n">> \o <<"good ">> \o Ip6One
    /\ \E t \in Tasks :
           /\ pc[t] = "responded" /\ resp[t].status = 200
           /\ Len(ip[t]) = 2 /\ resp[t].body = <<>>

(***************************************************************************)
(* C7                                                                      *)
(***************************************************************************)
\* C7: from_str fails exactly when some comma-separated part is neither an
\* IPv4 nor an IPv6 literal (or there is no part); when it succeeds there is
\* one pair per part, in order, A for an IPv4 part and AAAA for an IPv6 part.
C7_FailsIffSomePartInvalid ==
    parser.pc = "done" =>
        LET parts == Split(parser.s, ",")
            out   == parser.out
        IN  /\ ~out.ok <=>
                  \/ Len(parts) = 0
                  \/ \E i \in DOMAIN parts :
                         ~IsIpv4Literal(parts[i]) /\ ~IsIpv6Literal(parts[i])
            /\ out.ok =>
                  /\ Len(out.record_update) = Len(parts)
                  /\ out.record_update # <<>>
                  /\ \A i \in DOMAIN parts :
                         /\ IsIpv4Literal(parts[i]) => out.record_update[i][1] = "A"
                         /\ IsIpv6Literal(parts[i]) => out.record_update[i][1] = "AAAA"

(***************************************************************************)
(* C8                                                                      *)
(***************************************************************************)
C8_Inv ==
    /\ Len(records) = Len(InitRecords)
    /\ \A i \in DOMAIN records :
           /\ records[i].id = InitRecords[i].id
           /\ records[i].type = InitRecords[i].type
           /\ records[i].name = InitRecords[i].name

\* a step of a request leaves every record of another name as it was
C8_Step ==
    /\ \A t \in Tasks :
           pc'[t] # pc[t] =>
               \A i \in DOMAIN records :
                   records[i].name # req[t].hostname => records'[i] = records[i]
    /\ (pc' = pc => records' = records)

\* C8: the backend keeps the same records with the same id, type and name;
\* only content is overwritten, and a request never touches a record whose
\* name is not its hostname.
C8_OnlyContentOfNamedRecords == []C8_Inv /\ [][C8_Step]_vars

\* both tasks have written, one of them to each hostname's records
C8_Witness ==
    /\ records[2].content # InitRecords[2].content
    /\ records[5].content # InitRecords[5].content
    /\ \A t \in Tasks : update_calls[t] # <<>>

(***************************************************************************)
(* C9                                                                      *)
(***************************************************************************)
\* C9: two requests for the same update whose provider call fails in the same
\* way but with different backend detail get the same 500 body.
C9_SameBodyWhateverTheDetail ==
    \A t1, t2 \in Tasks :
        /\ pc[t1] = "responded" /\ resp[t1].status = 500
        /\ pc[t2] = "responded" /\ resp[t2].status = 500
        /\ req[t1] = req[t2]
        /\ last_out[t1].for = last_out[t2].for
        /\ last_out[t1].kind = last_out[t2].kind
        /\ Len(last_out[t1].result) = Len(last_out[t2].result)
        /\ Len(update_calls[t1]) = Len(update_calls[t2])
        => resp[t1].body = resp[t2].body

(***************************************************************************)
(* C10                                                                     *)
(***************************************************************************)
HasToken(text, token) == \E i \in DOMAIN text : text[i] = token

\* C10: get_zone_id yields an id only for a search result of exactly one zone,
\* and then that zone's id; more than one zone is a "Multiple zones" failure,
\* no zone a "No zone" failure, a failed request or decoding a failure of its
\* own; after a failed get_zone_id no further backend request is sent.
C10_ZoneResolution ==
    \A t \in Tasks :
        /\ pc[t] \in {"list_send", "update_send"} =>
               /\ last_out[t].for = "zones" /\ last_out[t].kind = "ok"
               /\ Len(last_out[t].result) = 1
               /\ zone_id[t] = last_out[t].result[1].id
        /\ last_out[t].for = "zones" /\ pc[t] = "responded" =>
               /\ resp[t].status = 500
               /\ LastOf(backend_log[t]) = "GET zones"
               /\ CountLog(t, "GET zones") = list_calls[t] + Len(update_calls[t])
               /\ last_out[t].kind = "ok" =>
                      /\ Len(last_out[t].result) # 1 \/ last_out[t].result[1].name # dns_origin
                      /\ HasToken(resp[t].body, "Multiple zones found for origin")
                             <=> Len(last_out[t].result) > 1
                      /\ Len(last_out[t].result) = 0
                             => HasToken(resp[t].body, "No zone found for origin")
               /\ last_out[t].kind = "send_err" =>
                      /\ HasToken(resp[t].body, "Listing records")
                      /\ ~HasToken(resp[t].body, "Multiple zones found for origin")
                      /\ ~HasToken(resp[t].body, "No zone found for origin")
               /\ last_out[t].kind = "json_err" =>
                      /\ HasToken(resp[t].body, "Parsing Cloudflare zones response")
                      /\ ~HasToken(resp[t].body, "Multiple zones found for origin")
                      /\ ~HasToken(resp[t].body, "No zone found for origin")

\* the zone search answered with two zones, one of them named like the origin,
\* before an update, and the request ended there
C10_Witness ==
    \E t \in Tasks :
        /\ pc[t] = "responded" /\ last_out[t].for = "zones"
        /\ Len(last_out[t].result) = 2
        /\ update_calls[t] # <<>>
        /\ CountLog(t, "PATCH dns_records") = 0
(***************************************************************************)
(* C11                                                                     *)
(***************************************************************************)
\* positions of the backend records of type A or AAAA
KeptPositions(recs) == {i \in DOMAIN recs : recs[i].type \in {"A", "AAAA"}}

\* entries holds the A and AAAA records of recs, one entry each, in the order
\* of recs, with type, id, name and content as the backend has them
ExactlyAddressRecords(entries, recs) ==
    /\ Len(entries) = Cardinality(KeptPositions(recs))
    /\ \A i \in KeptPositions(recs) :
           LET k == Cardinality({j \in KeptPositions(recs) : j <= i}) IN
           /\ entries[k].typ = recs[i].type
           /\ entries[k].id = recs[i].id
           /\ entries[k].name = recs[i].name
           /\ entries[k].content = recs[i].content

\* C11: for a successful backend response list_records returns exactly the
\* backend's records of type A or AAAA, in backend order, with id, name and
\* content unchanged; records of another type are dropped without an error,
\* and the records update_record holds are all of type A or AAAA.
C11_OnlyAddressRecordsListed ==
    /\ \A out \in ListOutcomes :
           out.kind = "ok" =>
               LET r == list_records_response(dns_origin, out, records) IN
               r.ok /\ ExactlyAddressRecords(r.entries, records)
    /\ \A t \in Tasks :
           \A i \in DOMAIN dns[t] :
               /\ dns[t][i].typ \in {"A", "AAAA"}
               /\ \E j \in DOMAIN records :
                      /\ records[j].id = dns[t][i].id
                      /\ records[j].name = dns[t][i].name
                      /\ records[j].type = dns[t][i].typ

\* a listing of h.example.com, which has a TXT record before its A and AAAA
\* records, gave update_record the three address records, and a record has
\* been rewritten since
C11_Witness ==
    /\ records # InitRecords
    /\ \E i \in DOMAIN records :
           records[i].type = "TXT" /\ records[i].name = HostH
    /\ \E t \in Tasks :
           /\ pc[t] = "update_zone"
           /\ req[t].hostname = HostH
           /\ Len(dns[t]) = 3
           /\ dns[t][1].id = "r1" /\ dns[t][2].id = "r2" /\ dns[t][3].id = "r3"

(***************************************************************************)
(* C12                                                                     *)
(***************************************************************************)
\* C12: every address string from_str hands out is the canonical string of
\* the address its part denotes, and normalization is idempotent: from_str of
\* that canonical string succeeds with the same record type and the same
\* string again.
C12_NormalizationIdempotent ==
    parser.pc = "done" /\ parser.out.ok =>
        LET parts == Split(parser.s, ",") IN
        /\ Len(parser.out.record_update) = Len(parts)
        /\ \A k \in DOMAIN parser.out.record_update :
               LET pair  == parser.out.record_update[k]
                   again == from_str(pair[2])
               IN  /\ pair[2] = IF pair[1] = "A"
                                THEN Ipv4ToString(ParseIpv4(parts[k]))
                                ELSE Ipv6ToString(ParseIpv6(parts[k]))
                   /\ again.ok
                   /\ again.record_update = <<pair>>

(***************************************************************************)
(* C13                                                                     *)
(***************************************************************************)
\* the task waits for the backend inside list_records / inside update_record
ListInFlight(t)   == pc[t] \in {"list_zone", "list_send"}
UpdateInFlight(t) == pc[t] \in {"update_zone", "update_send"}

C13_Inv ==
    \A t \in Tasks :
        /\ list_calls[t] <= 1
        /\ ListInFlight(t) => list_calls[t] = 1 /\ update_calls[t] = <<>>
        /\ update_calls[t] # <<>> => list_calls[t] = 1 /\ ~ListInFlight(t)
        \* the update_record calls but the last have completed successfully
        /\ Len(update_calls[t]) - Len(updated_ips[t]) \in {0, 1}
        /\ UpdateInFlight(t) => Len(update_calls[t]) = Len(updated_ips[t]) + 1
        /\ \A j \in DOMAIN updated_ips[t] :
               updated_ips[t][j] = update_calls[t][j].new_content
        \* the calls follow the order of the pairs, none of an earlier
        \* matched pair is missing
        /\ \A i, j \in DOMAIN update_calls[t] :
               i < j => update_calls[t][i].pair < update_calls[t][j].pair
        /\ \A j \in DOMAIN update_calls[t] :
               \A k \in 1..(update_calls[t][j].pair - 1) :
                   (\E i \in DOMAIN dns[t] : dns[t][i].typ = ip[t][k][1])
                       => CallsForPair(t, k) # {}

C13_Step ==
    \A t \in Tasks :
        /\ list_calls'[t] > list_calls[t] =>
               pc[t] = "handler" /\ list_calls[t] = 0
        /\ update_calls'[t] # update_calls[t] /\ pc'[t] # "idle" =>
               /\ Len(update_calls'[t]) = Len(update_calls[t]) + 1
               /\ SubSeq(update_calls'[t], 1, Len(update_calls[t])) = update_calls[t]
               /\ \/ /\ pc[t] = "list_send"
                     /\ last_out'[t].for = "list" /\ last_out'[t].kind = "ok"
                  \/ /\ pc[t] = "update_send"
                     /\ last_out'[t].for = "update" /\ last_out'[t].kind = "ok"
                     /\ Len(updated_ips'[t]) = Len(update_calls[t])

\* C13: within one request list_records is issued once and completes before
\* any update_record call, an update_record call is issued only when the
\* calls for all earlier matched pairs have completed successfully, and two
\* provider calls of one request are never in flight together.
C13_ProviderCallsInSequence == []C13_Inv /\ [][C13_Step]_vars

\* the second update_record call of a request is in flight, the first has
\* completed
C13_Witness ==
    \E t \in Tasks :
        /\ pc[t] = "update_send"
        /\ Len(update_calls[t]) = 2
        /\ Len(updated_ips[t]) = 1
        /\ list_calls[t] = 1

(***************************************************************************)
(* C14                                                                     *)
(***************************************************************************)
\* how far a request has come
Rank(p) ==
    CASE p = "idle"        -> 0
      [] p = "received"    -> 1
      [] p = "handler"     -> 2
      [] p = "list_zone"   -> 3
      [] p = "list_send"   -> 4
      [] p = "update_zone" -> 5
      [] p = "update_send" -> 6
      [] OTHER             -> 7

C14_Inv ==
    \A t \in Tasks :
        /\ list_calls[t] <= 1
        /\ CountLog(t, "GET dns_records") <= 1
        /\ CountLog(t, "PATCH dns_records") <= Len(ip[t])
        /\ \A j \in DOMAIN update_calls[t] : update_calls[t][j].pair \in DOMAIN ip[t]
        /\ \A k \in DOMAIN ip[t] : Cardinality(CallsForPair(t, k)) <= 1

C14_Step ==
    \A t \in Tasks :
        \* a request only moves forward; the loop of update_record comes back
        \* to its provider call for a later pair only
        /\ pc'[t] # pc[t] /\ pc'[t] # "idle" =>
               \/ Rank(pc'[t]) > Rank(pc[t])
               \/ /\ pc[t] = "update_send" /\ pc'[t] = "update_zone"
                  /\ idx'[t] > idx[t]
        \* one response, written when the request becomes Responded
        /\ pc[t] = "responded" => pc'[t] \in {"responded", "idle"}
        /\ resp'[t] # resp[t] =>
               \/ pc[t] # "responded" /\ pc'[t] = "responded" /\ resp[t] = NoResponse
               \/ pc'[t] = "idle" /\ resp'[t] = NoResponse

\* C14: provided every provider call returns to the request (none is cut off
\* with the request), every received request is eventually Responded, once,
\* after at most one list_records call and at most one update_record call
\* per pair of its myip; no step is entered again.
C14_RespondsOnceWithoutRetry ==
    /\ []C14_Inv
    /\ [][C14_Step]_vars
    /\ \A t \in Tasks :
           [](pc[t] # "dropped") => ((pc[t] = "received") ~> (pc[t] = "responded"))

\* a request was answered 200 after one list_records call and one
\* update_record call for each of its two pairs
C14_Witness ==
    \E t \in Tasks :
        /\ pc[t] = "responded" /\ resp[t].status = 200
        /\ list_calls[t] = 1
        /\ Len(ip[t]) = 2 /\ Len(update_calls[t]) = 2
        /\ CountLog(t, "PATCH dns_records") = 2

(***************************************************************************)
(* C15                                                                     *)
(***************************************************************************)
\* the well-formed myip values with two addresses of one family
DuplicateMyIps ==
    {s \in MyIps \ MalformedMyIps :
        LET parts == Split(s, ",") IN
        \E i, j \in DOMAIN parts :
            i < j /\ (IsIpv4Literal(parts[i]) <=> IsIpv4Literal(parts[j]))}

\* the pairs of the request whose type is the type of another of its pairs
SameTypePairs(t) ==
    {k \in DOMAIN ip[t] : \E j \in DOMAIN ip[t] : j # k /\ ip[t][j][1] = ip[t][k][1]}

C15_Inv ==
    \A t \in Tasks :
        req[t].myip \in DuplicateMyIps /\ DotSuffix(req[t].hostname, dns_origin)
        /\ pc[t] = "responded" /\ reached[t] =>
            \* not rejected
            /\ resp[t].status # 400
            /\ SameTypePairs(t) # {}
            /\ resp[t].status = 200 =>
                   \A k \in SameTypePairs(t) :
                       LET m == MatchIndex(req[t].hostname, ip[t][k][1]) IN
                       IF m = 0
                       THEN CallsForPair(t, k) = {}
                       ELSE \* its own call, on the first record of the type
                            /\ \E j \in DOMAIN update_calls[t] :
                                   /\ CallsForPair(t, k) = {j}
                                   /\ update_calls[t][j].record_id = InitRecords[m].id
                                   /\ update_calls[t][j].new_content = ip[t][k][2]
                                   \* calls and lines in input order
                                   /\ \A k2 \in SameTypePairs(t) : \A j2 \in CallsForPair(t, k2) :
                                          k2 < k => j2 < j
                                   /\ updated_ips[t][j] = ip[t][k][2]
                            /\ LET lines == Split(resp[t].body, "\n") IN
                               Cardinality({i \in DOMAIN lines :
                                   lines[i] = <<"good ">> \o ip[t][k][2]}) = 1

C15_Step ==
    \A t \in Tasks :
        pc[t] = "update_send" /\ pc'[t] = "responded" /\ resp'[t].status = 200
        /\ SameTypePairs(t) # {} =>
            \* the record holds the last address of its type when the request
            \* is answered
            \A k \in SameTypePairs(t) :
                (\A j \in SameTypePairs(t) : ip[t][j][1] = ip[t][k][1] => j <= k)
                /\ MatchIndex(req[t].hostname, ip[t][k][1]) # 0
                /\ update_calls[t][Len(update_calls[t])].pair = k =>
                    records'[MatchIndex(req[t].hostname, ip[t][k][1])].content
                        = ip[t][k][2]

\* C15: a myip with several addresses of one record type is not rejected;
\* each such pair, in input order, gets its own update_record call on the
\* first record of that type for the hostname, the record holds the last of
\* these addresses when the request is answered 200, and the response has one
\* "good" line per pair.
C15_DuplicateTypesApplied == []C15_Inv /\ [][C15_Step]_vars

\* h.example.com was sent 2.2.2.2,3.3.3.3: two calls on r1, which now holds
\* 3.3.3.3, and two good lines
C15_Witness ==
    \E t \in Tasks :
        /\ pc[t] = "responded" /\ resp[t].status = 200
        /\ req[t].hostname = HostH
        /\ req[t].myip = Ip2222 \o Comma \o Ip3333
        /\ Len(update_calls[t]) = 2
        /\ update_calls[t][1].record_id = "r1" /\ update_calls[t][2].record_id = "r1"
        /\ records[2].content = Ip3333
        /\ resp[t].body = <<"good ">> \o Ip2222 \o <<"\n", "good ">> \o Ip3333

(***************************************************************************)
(* C16                                                                     *)
(***************************************************************************)
\* the last update_record call the task started has run to its end: it
\* returned Ok, or it returned the error of a failed backend answer
LastCallCompleted(t) ==
    \/ Len(updated_ips[t]) = Len(update_calls[t])
    \/ /\ last_out[t].for \in {"zones", "update"}
       /\ Failed(last_out[t])
       /\ pc[t] = "responded"

\* C16: when the client disconnects while its request is handled, the
\* provider calls in flight run to completion: a request that has ended,
\* answered or not, has no update_record call that was started and never
\* returned.
C16_StartedCallsComplete ==
    \A t \in Tasks :
        pc[t] \in {"responded", "dropped"} /\ update_calls[t] # <<>> =>
            LastCallCompleted(t)

(***************************************************************************)
(* C17                                                                     *)
(***************************************************************************)
\* the address texts of the backend's records and of the requests' pairs
AddressTexts ==
    {InitRecords[i].content : i \in DOMAIN InitRecords}
        \cup UNION {{ParsedMyIp[s].record_update[k][2] :
                        k \in DOMAIN ParsedMyIp[s].record_update} : s \in MyIps}

\* those that are the canonical string of an IPv4 / of an IPv6 address
CanonicalIpv4 ==
    {x \in AddressTexts : IsIpv4Literal(x) /\ Ipv4ToString(ParseIpv4(x)) = x}
CanonicalIpv6 ==
    {x \in AddressTexts : IsIpv6Literal(x) /\ Ipv6ToString(ParseIpv6(x)) = x}

\* text is the canonical string of an address of the record type's family
CanonicalFor(type, text) ==
    IF type = "A" THEN text \in CanonicalIpv4 ELSE text \in CanonicalIpv6

\* the type of the backend's record with this id
TypeOfRecord(id) ==
    InitRecords[CHOOSE i \in DOMAIN InitRecords : InitRecords[i].id = id].type

\* C17: every update_record call gives a record of type A the canonical form
\* of an IPv4 address and a record of type AAAA that of an IPv6 address, and
\* the content of every A and AAAA record, of its type's family initially,
\* stays so in every reachable state.
C17_ContentMatchesType ==
    /\ \A t \in Tasks : \A j \in DOMAIN update_calls[t] :
           /\ TypeOfRecord(update_calls[t][j].record_id) \in {"A", "AAAA"}
           /\ TypeOfRecord(update_calls[t][j].record_id)
                  = ip[t][update_calls[t][j].pair][1]
           /\ CanonicalFor(TypeOfRecord(update_calls[t][j].record_id),
                           update_calls[t][j].new_content)
    /\ \A i \in DOMAIN records :
           records[i].type \in {"A", "AAAA"} =>
               CanonicalFor(records[i].type, records[i].content)

\* a request rewrote an A record and an AAAA record of h.example.com, the
\* latter with the canonical form of the address it was sent
C17_Witness ==
    /\ records[2].content = Ip2222
    /\ records[4].content = Ip6One
    /\ \E t \in Tasks :
           /\ pc[t] = "responded" /\ resp[t].status = 200
           /\ req[t].myip = Ip2222 \o Comma \o Ip6OneLong
           /\ Len(update_calls[t]) = 2

(***************************************************************************)
(* C18                                                                     *)
(***************************************************************************)
\* the addresses the task's update_record calls sent for this record id
SentFor(t, id) ==
    {update_calls[t][j].new_content :
        j \in {i \in DOMAIN update_calls[t] : update_calls[t][i].record_id = id}}

\* two requests for one hostname are in the server together, both answered 200
BothGood(t, u) ==
    /\ t # u
    /\ pc[t] = "responded" /\ pc[u] = "responded"
    /\ resp[t].status = 200 /\ resp[u].status = 200
    /\ req[t].hostname = req[u].hostname

C18_Inv ==
    /\ \A t, u \in Tasks :
           BothGood(t, u) =>
               \* a record both have updated holds an address one of them sent
               /\ \A i \in DOMAIN records :
                      SentFor(t, records[i].id) # {} /\ SentFor(u, records[i].id) # {}
                          => /\ records[i].content
                                    \in SentFor(t, records[i].id) \cup SentFor(u, records[i].id)
                             /\ CanonicalFor(records[i].type, records[i].content)
               \* each response lists the addresses of its own request
               /\ resp[t].body =
                      Join(GoodLines(req[t].hostname, ip[t], 1), <<"\n">>)
    \* a record that is updated was in the request's own listing
    /\ \A t \in Tasks : \A j \in DOMAIN update_calls[t] :
           \E i \in DOMAIN dns[t] : dns[t][i].id = update_calls[t][j].record_id

C18_Step ==
    \A t \in Tasks :
        \* the call that reaches the backend last decides: the record holds
        \* its address, whatever another request wrote before
        /\ pc[t] = "update_send" /\ pc'[t] \in {"update_zone", "responded"}
           /\ last_out'[t].kind = "ok" =>
               LET call == update_calls[t][Len(update_calls[t])] IN
               \A i \in DOMAIN records :
                   records'[i] = IF records[i].id = call.record_id
                                 THEN [records[i] EXCEPT !.content = call.new_content]
                                 ELSE records[i]
        \* a step of one request leaves the other's results alone
        /\ \A u \in Tasks \ {t} :
               pc'[t] # pc[t] /\ pc[u] = pc'[u] =>
                   /\ updated_ips'[u] = updated_ips[u]
                   /\ dns'[u] = dns[u]
                   /\ ip'[u] = ip[u]
                   /\ resp'[u] = resp[u]

\* C18: when two requests for one hostname are handled together and both are
\* answered 200, a record both updated holds the address sent by the call
\* that reached the backend last, under every interleaving; each response
\* lists the addresses of its own request; and no request updates a record
\* that its own list_records result did not hold.
C18_LastWriteWins == []C18_Inv /\ [][C18_Step]_vars

\* both requests for h.example.com are answered 200; one sent 2.2.2.2 and
\* then 3.3.3.3 for r1 and says so, yet r1 holds the 2.2.2.2 of the other,
\* whose call came last
C18_Witness ==
    \E t, u \in Tasks :
        /\ BothGood(t, u)
        /\ req[t].hostname = HostH
        /\ req[t].myip = Ip2222 \o Comma \o Ip3333
        /\ req[u].myip = Ip2222 \o Comma \o Ip6OneLong
        /\ records[2].content = Ip2222
        /\ resp[t].body = <<"good ">> \o Ip2222 \o <<"\n", "good ">> \o Ip3333
        /\ resp[u].body = <<"good ">> \o Ip2222 \o <<"\n", "good ">> \o Ip6One

=============================================================================
